---- MODULE Spec2Model ----
(***************************************************************************)
(* Model of agentplexus/ogen-tools: the two source patchers                *)
(* (cmd/ogen-fixerror, cmd/ogen-fixnull).                                  *)
(*                                                                         *)
(* A source buffer is a sequence of tokens.  Every token stands for one    *)
(* fixed piece of text; the literals of the regular expressions of the     *)
(* code are tokens of their own, so a regular expression matches a buffer  *)
(* exactly when its token-level counterpart below matches the token        *)
(* sequence.                                                               *)
(***************************************************************************)
EXTENDS Integers, Sequences, FiniteSets, TLC

VARIABLES op, input, content, prev, count, calls

\* the error-classification queries of package ogenerror
VARIABLES err0, errPrev, err, lastq, lastres, nq

qvars == <<err0, errPrev, err, lastq, lastres, nq>>

\* a run of one of the command-line tools
VARIABLES pc, nargs, file, rbuf, rfixed, rcount, writes, log, result

rvars == <<pc, nargs, file, rbuf, rfixed, rcount, writes, log, result>>

vars == <<op, input, content, prev, count, calls, qvars, rvars>>

(***************************************************************************)
(* Bounds                                                                  *)
(***************************************************************************)
MaxFragsErr == 3
MaxFragsImp == 4
MaxFragsNull == 3
MaxCalls == 2
MaxWrap == 1
MaxBody == 2
MaxQueries == 2
MaxFragsRun == 2
MaxArgs == 2

(***************************************************************************)
(* Tokens of ogen-fixerror buffers                                         *)
(*   TAB      one tab character                                            *)
(*   NL       one newline character                                        *)
(*   IMPORT(  the text `import (`                                          *)
(*   )        the text `)`                                                 *)
(*   QBYTES   the text `"bytes"`          QIO  the text `"io"`             *)
(*   RET      `return res, validate.UnexpectedStatusCodeWithResponse(resp)`*)
(*   CMT      `// Buffer the response body so it survives resp.Body.Close()`*)
(*   DRAIN    `body, _ := io.ReadAll(resp.Body)`                           *)
(*   REBUF    `resp.Body = io.NopCloser(bytes.NewReader(body))`            *)
(*   x        any other text without tab, newline, quote or parenthesis    *)
(***************************************************************************)

\* strings.Contains / bytes.Contains for a pattern that is one token
Contains(s, tok) == \E i \in 1..Len(s) : s[i] = tok

\* least index j >= i with s[j] not in S, Len(s)+1 when there is none
NextNotIn(S, s, i) ==
  LET js == {j \in i..Len(s) : s[j] \notin S}
  IN IF js = {} THEN Len(s) + 1
     ELSE CHOOSE j \in js : \A k \in js : j <= k

\* `(\t*)return res, validate\.UnexpectedStatusCodeWithResponse\(resp\)`
\* tried at position i: the index of the last token of the match, 0 if none
RetMatchEnd(s, i) ==
  LET e == NextNotIn({"TAB"}, s, i)
  IN IF e <= Len(s) /\ s[e] = "RET" THEN e ELSE 0

\* the replacement built by the callback from the captured indentation
RetReplacement(indent) ==
  indent \o <<"CMT", "NL">> \o indent \o <<"DRAIN", "NL">>
         \o indent \o <<"REBUF", "NL">> \o indent \o <<"RET">>

\* the callback of ReplaceAllFunc: submatches[1] is the run of tabs
RetCallback(match) == RetReplacement(SubSeq(match, 1, Len(match) - 1))

\* pattern.ReplaceAllFunc(content, callback) with count++ in the callback
RECURSIVE ReplaceAllRet(_, _, _, _)
ReplaceAllRet(s, i, out, n) ==
  LET ms == {m \in i..Len(s) : RetMatchEnd(s, m) > 0}
  IN IF ms = {} THEN [fixed |-> out \o SubSeq(s, i, Len(s)), count |-> n]
     ELSE LET m == CHOOSE j \in ms : \A k \in ms : j <= k
              e == RetMatchEnd(s, m)
          IN ReplaceAllRet(s, e + 1,
               out \o SubSeq(s, i, m - 1) \o RetCallback(SubSeq(s, m, e)),
               n + 1)

\* `(import \(\n)([\s\S]*?)(\n\))` tried at position i: the index of the
\* `)` that ends the match, 0 if none.  Group 2 is lazy: the first `\n)`
\* that starts after group 1 closes the match.
ImpMatchEnd(s, i) ==
  IF i + 1 <= Len(s) /\ s[i] = "IMPORT(" /\ s[i + 1] = "NL"
  THEN LET js == {j \in (i + 2)..(Len(s) - 1) : s[j] = "NL" /\ s[j + 1] = ")"}
       IN IF js = {} THEN 0
          ELSE 1 + (CHOOSE j \in js : \A k \in js : j <= k)
  ELSE 0

\* the lines the callback of addImports puts after the opening line
Additions(imports) ==
  (IF Contains(imports, "QBYTES") THEN <<>> ELSE <<<<"TAB", "QBYTES">>>>)
  \o (IF Contains(imports, "QIO") THEN <<>> ELSE <<<<"TAB", "QIO">>>>)

\* strings.Join(additions, "\n")
RECURSIVE JoinNL(_)
JoinNL(lines) ==
  IF lines = <<>> THEN <<>>
  ELSE IF Len(lines) = 1 THEN lines[1]
  ELSE lines[1] \o <<"NL">> \o JoinNL(Tail(lines))

\* the callback of addImports on one match
ImpCallback(match) ==
  LET imports == SubSeq(match, 3, Len(match) - 2)
      additions == Additions(imports)
  IN IF Len(additions) = 0 THEN match
     ELSE SubSeq(match, 1, 2) \o JoinNL(additions) \o <<"NL">>
          \o imports \o SubSeq(match, Len(match) - 1, Len(match))

RECURSIVE ReplaceAllImp(_, _, _)
ReplaceAllImp(s, i, out) ==
  LET ms == {m \in i..Len(s) : ImpMatchEnd(s, m) > 0}
  IN IF ms = {} THEN out \o SubSeq(s, i, Len(s))
     ELSE LET m == CHOOSE j \in ms : \A k \in ms : j <= k
              e == ImpMatchEnd(s, m)
          IN ReplaceAllImp(s, e + 1,
               out \o SubSeq(s, i, m - 1) \o ImpCallback(SubSeq(s, m, e)))

addImports(s) == ReplaceAllImp(s, 1, <<>>)

needsImports(s) == ~Contains(s, "QBYTES") \/ ~Contains(s, "QIO")

\* a version that adds the imports whether or not a return was rewritten
FixUnexpectedStatusCodeBodyAlwaysImports(s) ==
  LET r == ReplaceAllRet(s, 1, <<>>, 0)
  IN IF needsImports(s)
     THEN [fixed |-> addImports(r.fixed), count |-> r.count]
     ELSE r

FixUnexpectedStatusCodeBody(s) ==
  LET r == ReplaceAllRet(s, 1, <<>>, 0)
  IN IF r.count > 0 /\ needsImports(s)
     THEN [fixed |-> addImports(r.fixed), count |-> r.count]
     ELSE r

(***************************************************************************)
(* Tokens of ogen-fixnull buffers                                          *)
(*   FUNC     `func (o *Opt`                                               *)
(*   Foo Bar Name Nil   identifier pieces that start with an upper-case    *)
(*            letter; a type name of the OptNil family starts with Nil     *)
(*   foo      an identifier piece that starts with a lower-case letter     *)
(*   DECODE   `) Decode(d *jx.Decoder) error {`                            *)
(*   WS       a non-empty run of white space                               *)
(*   IFNIL    `if o == nil {`                                              *)
(*   ERRNEW   `return errors.New("invalid: unable to decode Opt`           *)
(*   TONIL    ` to nil")`                                                  *)
(*   }        `}`                                                          *)
(*   SET      `o.Set = true`                                               *)
(*   IFNULL   `if d.Next() == jx.Null {`                                   *)
(*   IFERR    `if err := d.Null(); err != nil {`                           *)
(*   RETERR   `return err`       RETNIL  `return nil`                      *)
(*   SETNULL  `o.Null = true`                                              *)
(*   x        any other text without quote, parenthesis or white space     *)
(***************************************************************************)

\* a pattern that tries to keep the OptNil family out by the first letter
UpperTokNoN == {"Foo", "Bar"}

\* tokens whose text starts with a letter of [A-Z]
UpperTok == {"Foo", "Bar", "Name", "Nil"}

\* tokens whose text contains `)`
ParenTok == {"DECODE", "TONIL", "IFNULL", "IFERR", ")", "RET", "DRAIN", "REBUF", "CMT"}

\* tokens whose text contains `"`
QuoteTok == {"ERRNEW", "TONIL", "QBYTES", "QIO"}

\* least index j >= i with s[j] in S, Len(s)+1 when there is none
NextIn(S, s, i) ==
  LET js == {j \in i..Len(s) : s[j] \in S}
  IN IF js = {} THEN Len(s) + 1
     ELSE CHOOSE j \in js : \A k \in js : j <= k

TokAt(s, i) == IF i >= 1 /\ i <= Len(s) THEN s[i] ELSE "EOF"

\* the pattern of FixOptDecodeNullHandling tried at position i: the index
\* of the `o.Set = true` token that ends the match, 0 if none
OptMatchEnd(s, i) ==
  LET m  == NextIn(ParenTok, s, i + 1)       \* group 2 `[A-Z][^\)]*?` ends here
      g  == NextNotIn({"WS"}, s, m + 1)       \* `\s*`
      e  == NextNotIn({"WS"}, s, g + 1)       \* `\s*`
      z  == NextIn(QuoteTok, s, e + 1)        \* group 4 `[^"]+?` ends here
      c  == NextNotIn({"WS"}, s, z + 1)       \* `\s*`
      t  == NextNotIn({"WS"}, s, c + 1)       \* `\s*`
  IN IF /\ TokAt(s, i) = "FUNC"
        /\ TokAt(s, i + 1) \in UpperTok
        /\ TokAt(s, m) = "DECODE"
        /\ TokAt(s, g) = "IFNIL"
        /\ TokAt(s, e) = "ERRNEW"
        /\ z > e + 1
        /\ TokAt(s, z) = "TONIL"
        /\ TokAt(s, c) = "}"
        /\ TokAt(s, t) = "SET"
     THEN t ELSE 0

\* the null check the code inserts (it ends with the white space that
\* precedes `o.Set = true`)
nullCheck ==
  <<"IFNULL", "WS", "IFERR", "WS", "RETERR", "WS", "}", "WS",
    "RETNIL", "WS", "}", "WS">>

\* a callback that writes the null check after `o.Set = true`
OptCallbackAfterSet(match) ==
  IF Contains(match, "IFNULL")
  THEN [out |-> match, delta |-> 0]
  ELSE [out |-> match \o nullCheck, delta |-> 1]

\* a callback that writes group 2 where group 4 belongs
OptCallbackEchoName(match) ==
  IF Contains(match, "IFNULL")
  THEN [out |-> match, delta |-> 0]
  ELSE LET m == NextIn({"DECODE"}, match, 1)
           e == NextIn({"ERRNEW"}, match, 1)
           z == NextIn({"TONIL"}, match, e)
       IN [out |-> SubSeq(match, 1, e) \o SubSeq(match, 2, m - 1)
                   \o SubSeq(match, z, Len(match) - 1) \o nullCheck
                   \o <<match[Len(match)]>>,
           delta |-> 1]

\* the callback of ReplaceAllFunc: delta is what it adds to count.
\* Groups 1..5 are the match without its last token, group 6 is SET.
OptCallback(match) ==
  IF Contains(match, "IFNULL")
  THEN [out |-> match, delta |-> 0]
  ELSE [out |-> SubSeq(match, 1, Len(match) - 1) \o nullCheck
                \o <<match[Len(match)]>>,
        delta |-> 1]

RECURSIVE ReplaceAllOpt(_, _, _, _)
ReplaceAllOpt(s, i, out, n) ==
  LET ms == {m \in i..Len(s) : OptMatchEnd(s, m) > 0}
  IN IF ms = {} THEN [fixed |-> out \o SubSeq(s, i, Len(s)), count |-> n]
     ELSE LET m == CHOOSE j \in ms : \A k \in ms : j <= k
              e == OptMatchEnd(s, m)
              r == OptCallback(SubSeq(s, m, e))
          IN ReplaceAllOpt(s, e + 1, out \o SubSeq(s, i, m - 1) \o r.out,
                           n + r.delta)

FixOptDecodeNullHandling(s) == ReplaceAllOpt(s, 1, <<>>, 0)

(***************************************************************************)
(* Input buffers: concatenations of a bounded number of text fragments     *)
(***************************************************************************)
RECURSIVE Flatten(_)
Flatten(fs) == IF fs = <<>> THEN <<>> ELSE fs[1] \o Flatten(Tail(fs))

SeqsUpTo(F, k) == UNION {[1..n -> F] : n \in 0..k}

\* an import block with the given lines, as in main_test.go
ImportBlock(names) ==
  <<"IMPORT(", "NL">>
  \o Flatten([i \in 1..Len(names) |-> <<"TAB", names[i], "NL">>])
  \o <<"TAB", "x", "NL", ")">>

\* the three lines of an earlier fix, without the return statement
FixedLines == <<"CMT", "NL", "DRAIN", "NL", "REBUF", "NL">>

ErrFrags ==
  { <<"RET">>, <<"TAB">>, <<"SP">>, <<"x">>, <<"QBYTES">>, <<"QIO">>,
    FixedLines,
    ImportBlock(<<>>), ImportBlock(<<"QBYTES">>),
    ImportBlock(<<"QBYTES", "QIO">>),
    <<"IMPORT(", "NL">>, <<"NL", ")">>, <<")">> }

ImpFrags ==
  { <<"IMPORT(", "NL">>, <<"NL", ")">>, <<")">>, <<"QBYTES">>, <<"QIO">>,
    <<"x">> }

\* a Decode method up to the closing brace of its nil guard; n1 is the type
\* name in the receiver, n2 the one in the error message
GuardedHead(n1, n2) ==
  <<"FUNC">> \o n1 \o <<"DECODE", "WS", "IFNIL", "WS", "ERRNEW">> \o n2
  \o <<"TONIL", "WS", "}">>

\* the Decode method ogen generates for Opt types (issue 1358)
DefectiveDecode(n) == GuardedHead(n, n) \o <<"WS", "SET">>

\* a Decode method that carries the null check already
FixedDecode(n) == GuardedHead(n, n) \o <<"WS">> \o nullCheck \o <<"SET">>

\* the Decode method ogen generates for OptNil types
OptNilDecode(n) ==
  GuardedHead(n, n)
  \o <<"WS", "IFNULL", "WS", "IFERR", "WS", "RETERR", "WS", "}", "WS",
       "SETNULL", "WS", "SET", "WS", "RETNIL", "WS", "}", "WS", "SET">>

NullFrags ==
  { DefectiveDecode(<<"Foo">>), DefectiveDecode(<<"Name">>),
    DefectiveDecode(<<"Nil", "Foo">>), DefectiveDecode(<<"foo">>),
    GuardedHead(<<"Foo">>, <<"Bar">>), GuardedHead(<<"Foo">>, <<"IFNULL">>),
    FixedDecode(<<"Foo">>), OptNilDecode(<<"Nil", "Foo">>),
    <<"SET">>, <<"WS">>, <<"x">> }

(***************************************************************************)
(* Package ogenerror.  An error value is described by                      *)
(*   wraps    the number of errors wrapped around the first                *)
(*            *validate.UnexpectedStatusCodeError of its chain             *)
(*   kind     "ogen" when the chain holds such an error, "none" otherwise  *)
(*            (wraps = 0 and kind = "none" is the nil error)               *)
(*   code     its StatusCode                                               *)
(*   payload  "nil" or "resp": its Payload, the http.Response            *)
(*   body     "nil" or "stream": Payload.Body                              *)
(*   data     the bytes the stream has yet to deliver                      *)
(*   fail     the stream ends with a read error instead of EOF             *)
(***************************************************************************)
StatusCodes == {0, 399, 400, 499, 500, 599, 600}

Bodies == UNION {[1..n -> {"a"}] : n \in 0..MaxBody}

NoOgen(w) ==
  [wraps |-> w, kind |-> "none", code |-> 0, payload |-> "nil",
   body |-> "nil", data |-> <<>>, fail |-> FALSE]

Errors ==
  {NoOgen(w) : w \in 0..MaxWrap}
  \cup {[wraps |-> w, kind |-> "ogen", code |-> c, payload |-> "nil",
         body |-> "nil", data |-> <<>>, fail |-> FALSE] :
           w \in 0..MaxWrap, c \in StatusCodes}
  \cup {[wraps |-> w, kind |-> "ogen", code |-> c, payload |-> "resp",
         body |-> "nil", data |-> <<>>, fail |-> FALSE] :
           w \in 0..MaxWrap, c \in StatusCodes}
  \cup [wraps : 0..MaxWrap, kind : {"ogen"}, code : StatusCodes,
        payload : {"resp"}, body : {"stream"}, data : Bodies,
        fail : BOOLEAN]

\* err == nil
IsNilError(e) == e.wraps = 0 /\ e.kind = "none"

\* errors.As(err, &ogenErr)
ErrorsAs(e) == e.kind = "ogen"

\* the nil *UnexpectedStatus
NilStatus == [nil |-> TRUE, StatusCode |-> 0, Body |-> <<>>]

\* io.ReadAll(body): the bytes and the error it returns, and the stream
\* it leaves behind
ReadAll(e) ==
  [bytes |-> e.data, failed |-> e.fail, after |-> [e EXCEPT !.data = <<>>]]

\* a Parse that keeps the bytes read before a read error
ParseKeepsPartialBody(e) ==
  IF IsNilError(e) THEN [res |-> NilStatus, err |-> e]
  ELSE IF ~ErrorsAs(e) THEN [res |-> NilStatus, err |-> e]
  ELSE IF e.payload # "nil" /\ e.body # "nil"
  THEN LET r == ReadAll(e)
       IN [res |-> [nil |-> FALSE, StatusCode |-> e.code, Body |-> r.bytes],
           err |-> r.after]
  ELSE [res |-> [nil |-> FALSE, StatusCode |-> e.code, Body |-> <<>>],
        err |-> e]

\* Parse(err): res is the result, err the error value after the call
Parse(e) ==
  IF IsNilError(e) THEN [res |-> NilStatus, err |-> e]
  ELSE IF ~ErrorsAs(e) THEN [res |-> NilStatus, err |-> e]
  ELSE IF e.payload # "nil" /\ e.body # "nil"
  THEN LET r == ReadAll(e)
       IN [res |-> [nil |-> FALSE, StatusCode |-> e.code,
                    Body |-> IF r.failed THEN <<>> ELSE r.bytes],
           err |-> r.after]
  ELSE [res |-> [nil |-> FALSE, StatusCode |-> e.code, Body |-> <<>>],
        err |-> e]

StatusCode(e) ==
  LET p == Parse(e)
  IN [res |-> IF p.res.nil THEN 0 ELSE p.res.StatusCode, err |-> p.err]

IsStatus(e, code) ==
  LET c == StatusCode(e) IN [res |-> c.res = code, err |-> c.err]

\* an Is4xx whose upper bound is off by one
Is4xxUpTo500(e) ==
  LET c == StatusCode(e)
  IN [res |-> c.res >= 400 /\ c.res <= 500, err |-> c.err]

Is4xx(e) ==
  LET c == StatusCode(e)
  IN [res |-> c.res >= 400 /\ c.res < 500, err |-> c.err]

Is5xx(e) ==
  LET c == StatusCode(e)
  IN [res |-> c.res >= 500 /\ c.res < 600, err |-> c.err]

NoQuery == [name |-> "none", code |-> 0]

RunOps == {"runfixerror", "runfixnull"}

\* the patcher a tool calls
Patcher(o, s) ==
  IF o = "runfixerror" THEN FixUnexpectedStatusCodeBody(s)
  ELSE FixOptDecodeNullHandling(s)

Ops == {"fixerror", "addimports", "fixnull", "ogenerror"} \cup RunOps

Inputs(o) ==
  IF o = "fixerror" THEN SeqsUpTo(ErrFrags, MaxFragsErr)
  ELSE IF o = "addimports" THEN SeqsUpTo(ImpFrags, MaxFragsImp)
  ELSE IF o = "fixnull" THEN SeqsUpTo(NullFrags, MaxFragsNull)
  ELSE IF o = "runfixerror" THEN SeqsUpTo(ErrFrags, MaxFragsRun)
  ELSE IF o = "runfixnull" THEN SeqsUpTo(NullFrags, MaxFragsRun)
  ELSE {<<>>}

(***************************************************************************)
(* The state machine: a buffer is chosen and one of the functions is       *)
(* applied to it, then to its own output.                                  *)
(*   op       the function under application                               *)
(*   input    the buffer chosen at the start                               *)
(*   content  the current buffer                                           *)
(*   prev     the buffer the last call was given                           *)
(*   count    the count the last call returned                             *)
(*   calls    the number of calls made                                     *)
(***************************************************************************)
Init ==
  /\ op \in Ops
  /\ \E fs \in Inputs(op) : input = Flatten(fs)
  /\ content = input
  /\ prev = input
  /\ count = 0
  /\ calls = 0
  /\ err0 \in (IF op = "ogenerror" THEN Errors ELSE {NoOgen(0)})
  /\ errPrev = err0
  /\ err = err0
  /\ lastq = NoQuery
  /\ lastres = "none"
  /\ nq = 0
  /\ pc = (IF op \in RunOps THEN "start" ELSE "idle")
  /\ nargs \in (IF op \in RunOps THEN 0..MaxArgs ELSE {1})
  /\ file = (IF op \in RunOps THEN input ELSE <<>>)
  /\ rbuf = <<>>
  /\ rfixed = <<>>
  /\ rcount = 0
  /\ writes = <<>>
  /\ log = <<>>
  /\ result = "running"

CallFixError ==
  /\ op = "fixerror"
  /\ calls < MaxCalls
  /\ LET r == FixUnexpectedStatusCodeBody(content)
     IN /\ content' = r.fixed
        /\ count' = r.count
  /\ prev' = content
  /\ calls' = calls + 1
  /\ UNCHANGED <<op, input, qvars, rvars>>

CallAddImports ==
  /\ op = "addimports"
  /\ calls < MaxCalls
  /\ content' = addImports(content)
  /\ prev' = content
  /\ calls' = calls + 1
  /\ UNCHANGED <<op, input, count, qvars, rvars>>

CallFixNull ==
  /\ op = "fixnull"
  /\ calls < MaxCalls
  /\ LET r == FixOptDecodeNullHandling(content)
     IN /\ content' = r.fixed
        /\ count' = r.count
  /\ prev' = content
  /\ calls' = calls + 1
  /\ UNCHANGED <<op, input, qvars, rvars>>

\* the queries: each is made on the error value the earlier ones left
CallParse ==
  /\ op = "ogenerror"
  /\ nq < MaxQueries
  /\ lastq' = [name |-> "Parse", code |-> 0]
  /\ lastres' = Parse(err).res
  /\ errPrev' = err
  /\ err' = Parse(err).err
  /\ nq' = nq + 1
  /\ UNCHANGED <<op, input, content, prev, count, calls, err0, rvars>>

CallStatusCode ==
  /\ op = "ogenerror"
  /\ nq < MaxQueries
  /\ lastq' = [name |-> "StatusCode", code |-> 0]
  /\ lastres' = StatusCode(err).res
  /\ errPrev' = err
  /\ err' = StatusCode(err).err
  /\ nq' = nq + 1
  /\ UNCHANGED <<op, input, content, prev, count, calls, err0, rvars>>

CallIsStatus ==
  \E c \in StatusCodes :
  /\ op = "ogenerror"
  /\ nq < MaxQueries
  /\ lastq' = [name |-> "IsStatus", code |-> c]
  /\ lastres' = IsStatus(err, c).res
  /\ errPrev' = err
  /\ err' = IsStatus(err, c).err
  /\ nq' = nq + 1
  /\ UNCHANGED <<op, input, content, prev, count, calls, err0, rvars>>

CallIs4xx ==
  /\ op = "ogenerror"
  /\ nq < MaxQueries
  /\ lastq' = [name |-> "Is4xx", code |-> 0]
  /\ lastres' = Is4xx(err).res
  /\ errPrev' = err
  /\ err' = Is4xx(err).err
  /\ nq' = nq + 1
  /\ UNCHANGED <<op, input, content, prev, count, calls, err0, rvars>>

CallIs5xx ==
  /\ op = "ogenerror"
  /\ nq < MaxQueries
  /\ lastq' = [name |-> "Is5xx", code |-> 0]
  /\ lastres' = Is5xx(err).res
  /\ errPrev' = err
  /\ err' = Is5xx(err).err
  /\ nq' = nq + 1
  /\ UNCHANGED <<op, input, content, prev, count, calls, err0, rvars>>

\* the steps of run(args); result is the error run returns, "ok" for nil

\* len(args) != 1
RunUsage ==
  /\ op \in RunOps /\ pc = "start"
  /\ nargs # 1
  /\ result' = "usage"
  /\ pc' = "done"
  /\ UNCHANGED <<op, input, content, prev, count, calls, qvars,
                 nargs, file, rbuf, rfixed, rcount, writes, log>>

\* os.ReadFile fails
RunReadFail ==
  /\ op \in RunOps /\ pc = "start"
  /\ nargs = 1
  /\ log' = Append(log, "read-fail")
  /\ result' = "read file"
  /\ pc' = "done"
  /\ UNCHANGED <<op, input, content, prev, count, calls, qvars,
                 nargs, file, rbuf, rfixed, rcount, writes>>

\* os.ReadFile succeeds
RunReadOK ==
  /\ op \in RunOps /\ pc = "start"
  /\ nargs = 1
  /\ rbuf' = file
  /\ log' = Append(log, "read-ok")
  /\ pc' = "read"
  /\ UNCHANGED <<op, input, content, prev, count, calls, qvars,
                 nargs, file, rfixed, rcount, writes, result>>

\* fixed, count := the patcher of the tool
RunPatch ==
  /\ op \in RunOps /\ pc = "read"
  /\ LET r == Patcher(op, rbuf)
     IN /\ rfixed' = r.fixed
        /\ rcount' = r.count
  /\ log' = Append(log, "patch")
  /\ pc' = "patched"
  /\ UNCHANGED <<op, input, content, prev, count, calls, qvars,
                 nargs, file, rbuf, writes, result>>

\* count == 0: the notice is printed and run returns nil
RunNothingToDo ==
  /\ op \in RunOps /\ pc = "patched"
  /\ rcount = 0
  /\ result' = "ok"
  /\ pc' = "done"
  /\ UNCHANGED <<op, input, content, prev, count, calls, qvars,
                 nargs, file, rbuf, rfixed, rcount, writes, log>>

\* a version without the early return for count == 0
RunWriteOKAnyCount ==
  /\ op \in RunOps /\ pc = "patched"
  /\ writes' = Append(writes, rfixed)
  /\ file' = rfixed
  /\ log' = Append(log, "write-ok")
  /\ result' = "ok"
  /\ pc' = "done"
  /\ UNCHANGED <<op, input, content, prev, count, calls, qvars,
                 nargs, rbuf, rfixed, rcount>>

\* os.WriteFile(filename, fixed, 0600) succeeds
RunWriteOK ==
  /\ op \in RunOps /\ pc = "patched"
  /\ rcount > 0
  /\ writes' = Append(writes, rfixed)
  /\ file' = rfixed
  /\ log' = Append(log, "write-ok")
  /\ result' = "ok"
  /\ pc' = "done"
  /\ UNCHANGED <<op, input, content, prev, count, calls, qvars,
                 nargs, rbuf, rfixed, rcount>>

\* os.WriteFile fails: the file is as it was, or truncated
RunWriteFail ==
  /\ op \in RunOps /\ pc = "patched"
  /\ rcount > 0
  /\ writes' = Append(writes, rfixed)
  /\ file' \in {file, <<>>}
  /\ log' = Append(log, "write-fail")
  /\ result' = "write file"
  /\ pc' = "done"
  /\ UNCHANGED <<op, input, content, prev, count, calls, qvars,
                 nargs, rbuf, rfixed, rcount>>

Next ==
  \/ RunUsage \/ RunReadFail \/ RunReadOK \/ RunPatch
  \/ RunNothingToDo \/ RunWriteOK \/ RunWriteFail
  \/ CallFixError \/ CallAddImports \/ CallFixNull
  \/ CallParse \/ CallStatusCode \/ CallIsStatus \/ CallIs4xx \/ CallIs5xx

Spec == Init /\ [][Next]_vars

TypeOK ==
  /\ op \in Ops
  /\ count \in Nat
  /\ calls \in 0..MaxCalls
  /\ err \in Errors
  /\ nq \in 0..MaxQueries
  /\ pc \in {"idle", "start", "read", "patched", "done"}
  /\ nargs \in 0..MaxArgs
  /\ Len(writes) <= 1

(***************************************************************************)
(* Text shapes the properties refer to, read off the buffer independently  *)
(* of the matching the patchers do                                         *)
(***************************************************************************)

\* greatest index j <= i with s[j] not in S, 0 when there is none
PrevNotIn(S, s, i) ==
  LET js == {j \in 1..i : s[j] \notin S}
  IN IF js = {} THEN 0 ELSE CHOOSE j \in js : \A k \in js : j >= k

\* greatest index j <= i with s[j] in S, 0 when there is none
PrevIn(S, s, i) ==
  LET js == {j \in 1..i : s[j] \in S}
  IN IF js = {} THEN 0 ELSE CHOOSE j \in js : \A k \in js : j >= k

\* the positions, read backwards from an `o.Set = true` at t, of the
\* closing brace, the end and the start of the error message, the guard,
\* the end of the header and the header start next to it
ShapeBefore(s, t) ==
  LET c == PrevNotIn({"WS"}, s, t - 1)
      z == PrevNotIn({"WS"}, s, c - 1)
      e == PrevIn({"ERRNEW", "TONIL", "QBYTES", "QIO"}, s, z - 1)
      g == PrevNotIn({"WS"}, s, e - 1)
      m == PrevNotIn({"WS"}, s, g - 1)
      h == PrevIn({"FUNC"}, s, m - 1)
  IN [c |-> c, z |-> z, e |-> e, g |-> g, m |-> m, h |-> h]

NameTok == {"Foo", "Bar", "Name", "Nil", "foo"}

\* names that start with an upper-case letter
IsUpperName(n) == n # <<>> /\ n[1] \in {"Foo", "Bar", "Name", "Nil"}

\* names of the OptNil family
IsNilName(n) == n # <<>> /\ n[1] = "Nil"

\* the type name in the receiver and the one in the error message
ReceiverName(s, t) ==
  LET p == ShapeBefore(s, t) IN SubSeq(s, p.h + 1, p.m - 1)

MessageName(s, t) ==
  LET p == ShapeBefore(s, t) IN SubSeq(s, p.e + 1, p.z - 1)

\* a Decode method of the defective shape ends at t: header with the name
\* n, nil guard whose error message repeats n, then `o.Set = true`
DefectiveRoutineAt(s, t) ==
  LET p == ShapeBefore(s, t)
  IN /\ TokAt(s, t) = "SET"
     /\ TokAt(s, p.c) = "}"
     /\ TokAt(s, p.z) = "TONIL"
     /\ TokAt(s, p.e) = "ERRNEW"
     /\ TokAt(s, p.g) = "IFNIL"
     /\ TokAt(s, p.m) = "DECODE"
     /\ p.h >= 1
     /\ \A k \in (p.h + 1)..(p.m - 1) : s[k] \in NameTok
     /\ ReceiverName(s, t) = MessageName(s, t)

DefectiveRoutines(s) ==
  {t \in 1..Len(s) : DefectiveRoutineAt(s, t) /\ IsUpperName(ReceiverName(s, t))}

\* the guard of a Decode method, with any upper-case receiver name and any
\* non-empty name in the error message, is directly followed by the
\* `o.Set = true` at t
GuardedSetAt(s, t) ==
  LET p == ShapeBefore(s, t)
  IN /\ TokAt(s, t) = "SET"
     /\ TokAt(s, p.c) = "}"
     /\ TokAt(s, p.z) = "TONIL"
     /\ TokAt(s, p.e) = "ERRNEW"
     /\ p.z > p.e + 1
     /\ TokAt(s, p.g) = "IFNIL"
     /\ TokAt(s, p.m) = "DECODE"
     /\ \E h \in 1..(p.m - 2) :
           /\ s[h] = "FUNC"
           /\ IsUpperName(<<s[h + 1]>>)
           /\ \A k \in (h + 1)..(p.m - 1) :
                 s[k] \in NameTok \cup {"FUNC", "WS", "IFNIL", "ERRNEW", "}",
                                       "SET", "RETERR", "RETNIL", "SETNULL",
                                       "x"}

\* the sites that lack the null check
UnfixedSites(s) ==
  {t \in 1..Len(s) :
     GuardedSetAt(s, t) /\ ~Contains(MessageName(s, t), "IFNULL")}

\* s with the null check put before every position of T
RECURSIVE InsertNullChecks(_, _, _, _)
InsertNullChecks(s, T, i, out) ==
  LET ts == {t \in T : t >= i /\ t <= Len(s)}
  IN IF ts = {} THEN out \o SubSeq(s, i, Len(s))
     ELSE LET t == CHOOSE j \in ts : \A k \in ts : j <= k
          IN InsertNullChecks(s, T, t + 1,
               out \o SubSeq(s, i, t - 1) \o nullCheck \o <<s[t]>>)

\* the number of places where the text of the null check starts
NullCheckCount(s) ==
  Cardinality({i \in 1..(Len(s) - Len(nullCheck) + 1) :
     SubSeq(s, i, i + Len(nullCheck) - 1) = nullCheck})

\* the start of the first import block of s, 0 when s has none
FirstBlockStart(s) ==
  LET is == {i \in 1..Len(s) : ImpMatchEnd(s, i) > 0}
  IN IF is = {} THEN 0 ELSE CHOOSE i \in is : \A k \in is : i <= k

\* the text between the opening line and the closing line of that block
FirstBlock(s) ==
  LET i == FirstBlockStart(s)
  IN IF i = 0 THEN <<>> ELSE SubSeq(s, i + 2, ImpMatchEnd(s, i) - 2)

\* the import lines for the names of ns that b lacks, in the order of ns
RECURSIVE MissingLines(_, _)
MissingLines(ns, b) ==
  IF ns = <<>> THEN <<>>
  ELSE (IF Contains(b, ns[1]) THEN <<>> ELSE <<"TAB", ns[1], "NL">>)
       \o MissingLines(Tail(ns), b)

\* the return statement at e already has the drain and rebuffer statements
\* right before it, at its own indentation
AlreadyFixedAt(s, e) ==
  LET i == PrevNotIn({"TAB"}, s, e - 1) + 1
      indent == SubSeq(s, i, e - 1)
      k == Len(indent)
  IN /\ TokAt(s, e) = "RET"
     /\ i - 4 - k >= 1
     /\ SubSeq(s, i - 4 - k, i - 1)
          = <<"DRAIN", "NL">> \o indent \o <<"REBUF", "NL">>

UnfixedReturns(s) ==
  {e \in 1..Len(s) : s[e] = "RET" /\ ~AlreadyFixedAt(s, e)}

TokCount(s, tok) == Cardinality({i \in 1..Len(s) : s[i] = tok})

(***************************************************************************)
(* Properties                                                              *)
(***************************************************************************)

\* C1: FixUnexpectedStatusCodeBody is idempotent: applied to its own
\* output it returns count 0 and the same buffer.
C1_FixErrorIdempotent ==
  (op = "fixerror" /\ calls >= 2) => (count = 0 /\ content = prev)

\* C2: FixOptDecodeNullHandling is idempotent: applied to its own output it
\* returns count 0 and the same buffer, and no call counts or changes a
\* null check that is already in place (the null checks of the output are
\* those of the input plus one per counted routine).
C2_FixNullIdempotent ==
  /\ (op = "fixnull" /\ calls >= 2) => (count = 0 /\ content = prev)
  /\ (op = "fixnull" /\ calls >= 1) =>
        NullCheckCount(content) = NullCheckCount(prev) + count

\* a second call on a buffer the first call rewrote, next to a method that
\* carried the null check from the start
C2_Witness ==
  /\ op = "fixnull" /\ calls = 2
  /\ NullCheckCount(input) = 1
  /\ NullCheckCount(prev) = 3
  /\ count = 0 /\ content = prev

\* C3: FixOptDecodeNullHandling never counts or alters a Decode method of
\* the OptNil family: the output is the input with the null check put into
\* the unfixed methods of other families only, and the count is their
\* number.
C3_OptNilNeverAltered ==
  (op = "fixnull" /\ calls >= 1) =>
    LET T == {t \in UnfixedSites(prev) : ~IsNilName(ReceiverName(prev, t))}
    IN /\ count = Cardinality(T)
       /\ content = InsertNullChecks(prev, T, 1, <<>>)

\* C4: every Decode method of the defective shape whose name starts with
\* an upper-case letter gets the null check between the closing brace of
\* the guard and `o.Set = true`, and the count is the number of methods
\* rewritten in the call.
C4_DefectiveRoutinesFixed ==
  (op = "fixnull" /\ calls >= 1) =>
    /\ DefectiveRoutines(prev) \subseteq UnfixedSites(prev)
    /\ content = InsertNullChecks(prev, UnfixedSites(prev), 1, <<>>)
    /\ count = Cardinality(UnfixedSites(prev))

\* OptName and OptFoo rewritten in one call, next to a method that was
\* correct already
C4_Witness ==
  /\ op = "fixnull" /\ calls = 1
  /\ count = 2
  /\ NullCheckCount(prev) = 1
  /\ \E t \in DefectiveRoutines(prev) : ReceiverName(prev, t) = <<"Name">>
  /\ NullCheckCount(content) = 3

\* b without the null checks that start at the positions of T
WithoutNullChecks(b, T) ==
  LET kept == {j \in 1..Len(b) :
                 \A t \in T : j < t \/ j >= t + Len(nullCheck)}
  IN [n \in 1..Cardinality(kept) |->
        b[CHOOSE i \in kept : Cardinality({j \in kept : j <= i}) = n]]

\* b is a with k null checks put in
IsInsertion(a, b, k) ==
  LET starts == {j \in 1..(Len(b) - Len(nullCheck) + 1) :
                   SubSeq(b, j, j + Len(nullCheck) - 1) = nullCheck}
  IN \E T \in SUBSET starts :
       /\ Cardinality(T) = k
       /\ \A t, u \in T : t < u => t + Len(nullCheck) <= u
       /\ WithoutNullChecks(b, T) = a

\* C5: FixOptDecodeNullHandling changes nothing but the insertion points:
\* taking count null checks out of the output gives back the input.
C5_OnlyNullChecksInserted ==
  (op = "fixnull" /\ calls >= 1) => IsInsertion(prev, content, count)

\* a rewritten method whose error message names another type, next to
\* unrelated text
C5_Witness ==
  /\ op = "fixnull" /\ calls = 1
  /\ count >= 1
  /\ Contains(prev, "x")
  /\ \E t \in UnfixedSites(prev) : MessageName(prev, t) # ReceiverName(prev, t)
  /\ content # prev

\* C6: FixUnexpectedStatusCodeBody adds only the lines before the matched
\* returns and import lines right after the opening line of the first
\* import block; a second import block is left as it was.
C6_OnlyFirstImportBlock ==
  (op = "fixerror" /\ calls >= 1) =>
    LET r == ReplaceAllRet(prev, 1, <<>>, 0).fixed
        i == FirstBlockStart(r)
    IN \/ content = r
       \/ /\ i > 0
          /\ \E ns \in {<<"QBYTES">>, <<"QIO">>, <<"QBYTES", "QIO">>} :
                content = SubSeq(r, 1, i + 1) \o MissingLines(ns, <<>>)
                          \o SubSeq(r, i + 2, Len(r))

\* C7: when a return was rewritten, each of "bytes" and "io" that the
\* import block of the input lacks is in the import block of the output,
\* on a new line right after the opening line, whatever the rest of the
\* file quotes.
C7_MissingImportsAdded ==
  (op = "fixerror" /\ calls >= 1 /\ count > 0 /\ FirstBlockStart(prev) > 0) =>
    LET lines == MissingLines(<<"QBYTES", "QIO">>, FirstBlock(prev))
        b == FirstBlock(content)
    IN /\ Len(b) >= Len(lines)
       /\ SubSeq(b, 1, Len(lines)) = lines

\* C8: the import step adds no name twice: run on its own output it
\* changes nothing, a name the block has is not added, and a block never
\* gets two added lines for one name.
C8_ImportStepIdempotent ==
  /\ (op = "addimports" /\ calls >= 2) => content = prev
  /\ (op = "addimports" /\ calls >= 1 /\ FirstBlockStart(prev) > 0) =>
        LET i == FirstBlockStart(prev)
            lines == MissingLines(<<"QBYTES", "QIO">>, FirstBlock(prev))
        IN SubSeq(content, 1, i + 1 + Len(lines))
             = SubSeq(prev, 1, i + 1) \o lines
  /\ (op = "addimports") =>
        \A n \in {"QBYTES", "QIO"} :
          TokCount(FirstBlock(content), n) <= 1 + TokCount(input, n)

\* C9: with some return sites already preceded by the drain and rebuffer
\* statements, only the others are rewritten and counted.
C9_OnlyUnfixedReturnsRewritten ==
  (op = "fixerror" /\ calls >= 1) =>
    /\ count = Cardinality(UnfixedReturns(prev))
    /\ TokCount(content, "DRAIN") = TokCount(prev, "DRAIN") + count

\* C10: an input without a match site gives count 0 and the input itself;
\* FixUnexpectedStatusCodeBody adds no import when it rewrote no return.
C10_NoMatchUnchanged ==
  /\ (op = "fixerror" /\ calls >= 1 /\ ~Contains(prev, "RET")) =>
        (count = 0 /\ content = prev)
  /\ (op = "fixnull" /\ calls >= 1
        /\ \A t \in 1..Len(prev) : ~GuardedSetAt(prev, t)) =>
        (count = 0 /\ content = prev)

\* a file without the return statement whose import block lacks both names
C10_Witness ==
  /\ op = "fixerror" /\ calls = 1
  /\ ~Contains(prev, "RET")
  /\ FirstBlockStart(prev) > 0
  /\ ~Contains(prev, "QBYTES") /\ ~Contains(prev, "QIO")
  /\ count = 0 /\ content = prev

\* the result of the query q made on its own on the error value e
Alone(q, e) ==
  IF q.name = "Parse" THEN Parse(e).res
  ELSE IF q.name = "StatusCode" THEN StatusCode(e).res
  ELSE IF q.name = "IsStatus" THEN IsStatus(e, q.code).res
  ELSE IF q.name = "Is4xx" THEN Is4xx(e).res
  ELSE Is5xx(e).res

\* C11: the queries are pure: a query made after other queries on the same
\* error returns what it returns when made on its own; a later Parse
\* returns the Body the first Parse would have returned.
C11_QueriesPure ==
  (op = "ogenerror" /\ lastq.name # "none") => lastres = Alone(lastq, err0)

\* the error carries an UnexpectedStatusCodeError
CarriesOgen(e) == e.kind = "ogen"

\* C12: Parse returns nil exactly for a nil error and for an error without
\* an UnexpectedStatusCodeError; otherwise StatusCode is the status code of
\* the error and Body is the drained payload, or empty when the payload or
\* its stream is absent or the read fails.  StatusCode is that code, or 0.
C12_ParseResult ==
  /\ (op = "ogenerror" /\ lastq.name = "Parse") =>
        /\ lastres.nil <=> (IsNilError(errPrev) \/ ~CarriesOgen(errPrev))
        /\ ~lastres.nil =>
              /\ lastres.StatusCode = errPrev.code
              /\ lastres.Body =
                    (IF errPrev.payload = "resp" /\ errPrev.body = "stream"
                        /\ ~errPrev.fail
                     THEN errPrev.data ELSE <<>>)
              /\ err.data = <<>>
  /\ (op = "ogenerror" /\ lastq.name = "StatusCode") =>
        lastres = (IF CarriesOgen(errPrev) THEN errPrev.code ELSE 0)

\* Parse of a wrapped error whose stream fails after some bytes
C12_Witness ==
  /\ op = "ogenerror" /\ lastq.name = "Parse"
  /\ errPrev.wraps = 1 /\ errPrev.kind = "ogen" /\ errPrev.code = 400
  /\ errPrev.body = "stream" /\ errPrev.fail /\ Len(errPrev.data) = 2
  /\ ~lastres.nil /\ lastres.Body = <<>> /\ lastres.StatusCode = 400

\* C13: IsStatus(err, code) is true exactly when err carries an
\* UnexpectedStatusCodeError whose status code is code.
C13_IsStatusExact ==
  (op = "ogenerror" /\ lastq.name = "IsStatus") =>
    (lastres <=> (CarriesOgen(errPrev) /\ errPrev.code = lastq.code))

\* C14: Is4xx is true exactly for a carried status code in 400..499, Is5xx
\* exactly for one in 500..599; they are never both true, and both are
\* false for nil and for errors that carry no UnexpectedStatusCodeError.
C14_RangeQueries ==
  /\ (op = "ogenerror" /\ lastq.name = "Is4xx") =>
        (lastres <=> (CarriesOgen(errPrev) /\ errPrev.code \in 400..499))
  /\ (op = "ogenerror" /\ lastq.name = "Is5xx") =>
        (lastres <=> (CarriesOgen(errPrev) /\ errPrev.code \in 500..599))
  /\ op = "ogenerror" => ~(Is4xx(err).res /\ Is5xx(err).res)
  /\ (op = "ogenerror" /\ ~CarriesOgen(err)) =>
        (~Is4xx(err).res /\ ~Is5xx(err).res)

\* Is4xx answered for the status code 500, right above its range
C14_Witness ==
  /\ op = "ogenerror" /\ lastq.name = "Is4xx"
  /\ CarriesOgen(errPrev) /\ errPrev.code = 500
  /\ lastres = FALSE
  /\ Is5xx(err).res

\* C15: in a run the file is written at most once, only after a successful
\* read and a count above 0, and with the output of the patcher; a wrong
\* number of arguments gives the usage error without a read or a write,
\* nothing is patched or written after a failed read, and with count 0 the
\* run succeeds without a write.
C15_RunWritesOnlyFixes ==
  op \in RunOps =>
    /\ Len(writes) <= 1
    /\ writes # <<>> =>
          /\ nargs = 1
          /\ SubSeq(log, 1, 2) = <<"read-ok", "patch">>
          /\ Patcher(op, input).count > 0
          /\ writes[1] = Patcher(op, input).fixed
    /\ (pc = "done" /\ nargs # 1) =>
          (result = "usage" /\ log = <<>> /\ writes = <<>> /\ file = input)
    /\ Contains(log, "read-fail") =>
          (log = <<"read-fail">> /\ writes = <<>> /\ file = input
           /\ result = "read file")
    /\ (pc = "done" /\ log = <<"read-ok", "patch">>) =>
          (Patcher(op, input).count = 0 /\ result = "ok" /\ writes = <<>>
           /\ file = input)
    /\ (pc = "done" /\ nargs = 1 /\ ~Contains(log, "read-fail")
          /\ Patcher(op, input).count = 0) =>
          (result = "ok" /\ writes = <<>> /\ file = input)

\* a run of ogen-fixnull that rewrote two methods and wrote the file
C15_Witness ==
  /\ op = "runfixnull" /\ pc = "done"
  /\ result = "ok"
  /\ log = <<"read-ok", "patch", "write-ok">>
  /\ rcount = 2
  /\ file = FixOptDecodeNullHandling(input).fixed
  /\ file # input

\* the whitespace span that ends right before position e
WsBefore(s, e) == SubSeq(s, PrevNotIn({"TAB", "SP"}, s, e - 1) + 1, e - 1)

\* the position of the k-th occurrence of tok in s
NthPos(s, tok, k) ==
  CHOOSE i \in 1..Len(s) :
    s[i] = tok /\ Cardinality({j \in 1..i : s[j] = tok}) = k

\* C16: on an input without already-fixed sites every return statement is
\* counted and comes out preceded by the drain and the rebuffer statement, in
\* this order, each on a line with the whitespace the return statement had
\* before it, and the return statement keeps that whitespace.
C16_FixInsertedAtIndentation ==
  (op = "fixerror" /\ calls = 1
     /\ UnfixedReturns(prev) = {e \in 1..Len(prev) : prev[e] = "RET"}) =>
    /\ count = TokCount(prev, "RET")
    /\ TokCount(content, "RET") = count
    /\ \A k \in 1..count :
         LET q == NthPos(prev, "RET", k)
             p == NthPos(content, "RET", k)
             r == PrevIn({"REBUF"}, content, p)
             d == PrevIn({"DRAIN"}, content, p)
             indent == WsBefore(prev, q)
         IN /\ d > 0 /\ d < r /\ r < p
            /\ SubSeq(content, d, p)
                 = <<"DRAIN", "NL">> \o WsBefore(content, r)
                     \o <<"REBUF", "NL">> \o WsBefore(content, p) \o <<"RET">>
            /\ WsBefore(content, d) = indent
            /\ WsBefore(content, r) = indent
            /\ WsBefore(content, p) = indent

====
